---- MODULE Spec2Model ----
(***************************************************************************)
(* pixgrid: the conversion pipeline (package converter) and the session    *)
(* store of the web service (package server).                              *)
(*                                                                         *)
(* Several specifications share the module.  Spec is the server: request  *)
(* handlers, the session map behind its RWMutex, the ticker and the        *)
(* cleanup loop.  PipeSpec applies the pure pipeline functions to bounded  *)
(* images, ChanSpec applies quantizeChannel to every channel value and     *)
(* CliSpec is a run of the command-line program.                           *)
(*                                                                         *)
(* An image is the grid the pipeline reads through image.Image.At: a       *)
(* rectangle and one 8-bit <<r, g, b, a>> pixel per point, the value       *)
(* *image.RGBA stores.  Every image passed between stages is an            *)
(* *image.RGBA.                                                            *)
(***************************************************************************)
EXTENDS Integers, Sequences, FiniteSets, TLC

\* ------------------------------------------------------------------ bounds
NumHandlers == 2
NumIDs == 2
MaxSessions == 2
MaxLateTicks == 1
MaxW == 4
MaxH == 3
MaxTarget == 5
MaxScale == 3
MaxColors == 9
MaxChanColors == 771
MaxFlag == 2
MaxInvalid == 2
MaxWebUploads == 2
MaxWebParams == 2
MaxWebRequests == 4

\* --------------------------------------------------------- program constants
TickInterval == 5
IdleThreshold == 30
DefaultSize == 64
DefaultScale == 8
CliDefaultSize == 64
CliDefaultScale == 8
CliDefaultColors == 16
MantissaBits == 52

VARIABLES
    sessions,     \* Server.sessions: id -> *Session (an index into heap)
    heap,         \* the Session objects ever allocated, by address
    mu,           \* Server.mu: [writer, readers]
    now,          \* time.Now(), in minutes
    tickPending,  \* a tick waits in ticker.C (capacity 1)
    reaperPc,     \* position of cleanupLoop
    hs,           \* the request goroutines: position and locals
    issued,       \* history: per Session object, the id and image of its upload
    reaped,       \* history: the Session objects cleanupLoop deleted
    pin,          \* PipeSpec: the stage's input image
    pcall,        \* PipeSpec: the call made
    pout,         \* PipeSpec: the image returned
    cli,          \* CliSpec: the command-line program's flags, locals and exit
    outFile,      \* CliSpec: what the output path holds on disk
    web           \* WebSpec: the state of the React component App

serverVars == <<sessions, heap, mu, now, tickPending, reaperPc, hs, issued, reaped>>
pipeVars == <<pin, pcall, pout>>
cliVars == <<cli, outFile>>
webVars == <<web>>
vars == <<sessions, heap, mu, now, tickPending, reaperPc, hs, issued, reaped,
          pin, pcall, pout, cli, outFile, web>>

\* ------------------------------------------------------------ Go arithmetic
Abs(n) == IF n < 0 THEN -n ELSE n

Min2(a, b) == IF a < b THEN a ELSE b

Max2(a, b) == IF a < b THEN b ELSE a

\* Go's integer quotient truncates toward zero.
GoDiv(a, b) ==
    IF (a >= 0) = (b > 0) THEN Abs(a) \div Abs(b) ELSE -(Abs(a) \div Abs(b))

\* ------------------------------------------------------------------ images
ZeroPixel == <<0, 0, 0, 0>>

\* image.Rect swaps the coordinates so that the rectangle is well formed.
Rect(x0, y0, x1, y1) ==
    [minX |-> Min2(x0, x1), minY |-> Min2(y0, y1),
     maxX |-> Max2(x0, x1), maxY |-> Max2(y0, y1)]

Dx(r) == r.maxX - r.minX

Dy(r) == r.maxY - r.minY

Points(r) == (r.minX .. (r.maxX - 1)) \X (r.minY .. (r.maxY - 1))

\* RGBA.At: the stored pixel, the zero colour outside the bounds.
At(img, x, y) ==
    IF <<x, y>> \in DOMAIN img.pix THEN img.pix[<<x, y>>] ELSE ZeroPixel

\* The points visited by the loops "for y < height, for x < width".
Visited(width, height) == (0 .. (width - 1)) \X (0 .. (height - 1))

\* An image built by those loops doing newImg.Set(x, y, colorAt[x, y]) on
\* image.NewRGBA(r): points the loops do not visit stay zero.
Render(r, width, height, colorAt) ==
    [bounds |-> r,
     pix |-> [p \in Points(r) |->
                 IF p \in Visited(width, height) THEN colorAt[p] ELSE ZeroPixel]]

\* ------------------------------------------------------- float64 arithmetic
RECURSIVE Pow2(_)
Pow2(n) == IF n <= 0 THEN 1 ELSE 2 * Pow2(n - 1)

\* The largest k with 2^k <= n, for n >= 1.
RECURSIVE Log2Floor(_)
Log2Floor(n) == IF n < 2 THEN 0 ELSE 1 + Log2Floor(n \div 2)

\* The smallest k with 2^k >= n, for n >= 1.
RECURSIVE Log2Ceil(_)
Log2Ceil(n) == IF n <= 1 THEN 0 ELSE 1 + Log2Ceil((n + 1) \div 2)

\* 2^n modulo m.
RECURSIVE PowMod2(_, _)
PowMod2(n, m) == IF n <= 0 THEN 1 % m ELSE (2 * PowMod2(n - 1, m)) % m

\* ---------------------------------------------------------------- Downscale
\* Variant: the height rounded to the nearest integer.
DownscaleHeightRounded(img, targetWidth) ==
    GoDiv(2 * Dy(img.bounds) * targetWidth + Dx(img.bounds), 2 * Dx(img.bounds))

DownscaleHeight(img, targetWidth) ==
    GoDiv(Dy(img.bounds) * targetWidth, Dx(img.bounds))

DownscaleBounds(img, targetWidth) ==
    Rect(0, 0, targetWidth, DownscaleHeight(img, targetWidth))

\* int((float64(i) + 0.5) * scale) with scale = float64(orig) / float64(target),
\* in IEEE 754 binary64 with round-to-nearest, for i >= 0 and orig, target >= 1.
\* The quotient orig/target is rounded to 53 significant bits and so is the
\* product.  The two roundings move the product by far less than 1/(2*target),
\* so the truncation differs from the exact floor N of (2i+1)*orig/(2*target)
\* only when that value is the integer N itself: the result is N - 1 when the
\* scale was rounded down (remainder R of orig * 2^(52-a) by target with
\* 0 < 2R < target, a the exponent of the quotient) by so much that the product
\* lies more than half a spacing below N and rounds to the double before N.
SampleCoord(i, orig, target) ==
    LET num == (2 * i + 1) * orig
        den == 2 * target
        N == num \div den
        a == IF orig >= target
             THEN Log2Floor(orig \div target)
             ELSE 0 - Log2Ceil((target + orig - 1) \div orig)
        R == (orig * PowMod2(MantissaBits - a, target)) % target
        e == Log2Floor(N)
        below == (2 * i + 1) * R * (IF N = Pow2(e) THEN 2 ELSE 1)
                    * (IF a >= 0 THEN Pow2(a) ELSE 1)
        half == target * Pow2(e) * (IF a < 0 THEN Pow2(0 - a) ELSE 1)
    IN  IF num % den # 0 \/ R = 0 \/ 2 * R > target THEN N
        ELSE IF below > half THEN N - 1
        ELSE N

Downscale(img, targetWidth) ==
    LET origWidth == Dx(img.bounds)
        origHeight == Dy(img.bounds)
        targetHeight == DownscaleHeight(img, targetWidth)
        src(x, y) == At(img, SampleCoord(x, origWidth, targetWidth),
                             SampleCoord(y, origHeight, targetHeight))
    IN  Render(DownscaleBounds(img, targetWidth), targetWidth, targetHeight,
               [p \in Visited(targetWidth, targetHeight) |-> src(p[1], p[2])])

\* --------------------------------------------------- UpscaleNearestNeighbor
UpscaleBounds(b, scaleFactor) ==
    Rect(0, 0, Dx(b) * scaleFactor, Dy(b) * scaleFactor)

\* Variant: the source index rounded to the nearest integer.
UpscaleSrcRounded(i, scaleFactor) == GoDiv(2 * i + scaleFactor, 2 * scaleFactor)

UpscaleSrc(i, scaleFactor) == GoDiv(i, scaleFactor)

UpscaleNearestNeighbor(img, scaleFactor) ==
    LET newWidth == Dx(img.bounds) * scaleFactor
        newHeight == Dy(img.bounds) * scaleFactor
        src(x, y) == At(img, UpscaleSrc(x, scaleFactor), UpscaleSrc(y, scaleFactor))
    IN  Render(UpscaleBounds(img.bounds, scaleFactor), newWidth, newHeight,
               [p \in Visited(newWidth, newHeight) |-> src(p[1], p[2])])

\* ----------------------------------------------------------- QuantizeColors
LevelsPerChannel(numColors) ==
    LET l == GoDiv(numColors, 3) IN IF l < 2 THEN 2 ELSE l

QuantStep(numColors) == GoDiv(255, LevelsPerChannel(numColors) - 1)

\* Variant: the level above the quotient, int(value/step) + 1.
quantizeChannelNextLevel(value, step) ==
    IF step = 0 THEN 0
    ELSE LET result == ((value \div step) + 1) * step
         IN  IF result > 255 THEN 255 ELSE result

\* Variant: the level truncated instead of rounded.
quantizeChannelTruncating(value, step) ==
    IF step = 0 THEN 0
    ELSE LET result == (value \div step) * step
         IN  IF result > 255 THEN 255 ELSE result

\* level := int(float64(value)/float64(step) + 0.5); result := level * step,
\* clamped to 255.  With step = 0 the quotient is +Inf or NaN and level is
\* whatever the conversion to int gives: result is level * 0 = 0.
quantizeChannel(value, step) ==
    IF step = 0 THEN 0
    ELSE LET level == (2 * value + step) \div (2 * step)
             result == level * step
         IN  IF result > 255 THEN 255 ELSE result

QuantizeColors(img, numColors) ==
    LET width == Dx(img.bounds)
        height == Dy(img.bounds)
        step == QuantStep(numColors)
        q(x, y) == LET c == At(img, x, y)
                   IN  <<quantizeChannel(c[1], step), quantizeChannel(c[2], step),
                         quantizeChannel(c[3], step), c[4]>>
    IN  Render(Rect(0, 0, width, height), width, height,
               [p \in Visited(width, height) |-> q(p[1], p[2])])

\* ------------------------------------------------------------- ConvertImage
\* Variant: colors = 0 quantizes too.
ConvertQuantizesFromZero(colors) == colors >= 0

\* "if colors > 0"
ConvertQuantizes(colors) == colors > 0

\* Variant: the image upscaled first and downscaled last.
ConvertImageUpscaleFirst(img, pixelSize, scale, colors) ==
    LET bigImg == UpscaleNearestNeighbor(img, scale)
        quantized == IF ConvertQuantizes(colors)
                     THEN QuantizeColors(bigImg, colors)
                     ELSE bigImg
    IN  Downscale(quantized, pixelSize)

ConvertImage(img, pixelSize, scale, colors) ==
    LET smallImg == Downscale(img, pixelSize)
        quantized == IF ConvertQuantizes(colors)
                     THEN QuantizeColors(smallImg, colors)
                     ELSE smallImg
    IN  UpscaleNearestNeighbor(quantized, scale)

\* The bounds of ConvertImage's result (QuantizeColors keeps width and height).
ConvertBounds(img, pixelSize, scale) ==
    UpscaleBounds(DownscaleBounds(img, pixelSize), scale)

\* ------------------------------------------------------------ source images
\* A w x h image whose pixels differ from point to point; variant 1 is
\* translucent.
MkImage(w, h, v) ==
    [bounds |-> Rect(0, 0, w, h),
     pix |-> [p \in Points(Rect(0, 0, w, h)) |->
                 <<(50 * p[1] + 30 * v + 10) % 256,
                   (70 * p[2] + 90 * v + 20) % 256,
                   (45 * (p[1] + p[2]) + 200 * v) % 256,
                   IF v = 0 THEN 255 ELSE 128>>]]

EmptyImage == MkImage(0, 0, 0)

\* A 100 x 50 source.
ExampleImage == MkImage(100, 50, 0)

\* A 26 x 2 source.
WideImage == MkImage(26, 2, 0)

\* What image.Decode hands to handleUpload: the k-th upload admitted carries
\* its own image, 2 x 1 opaque or 1 x 2 translucent in turn.
UploadImage(k) == IF k % 2 = 1 THEN MkImage(2, 1, 0) ELSE MkImage(1, 2, 1)

\* ------------------------------------------------------------- server state
Handlers == 1 .. NumHandlers

\* The values generateSessionID can return (16 random bytes, hex encoded).
IDs == 1 .. NumIDs

\* The size, scale and colors a request body can carry.
ReqParams ==
    {[size |-> 0, scale |-> 0, colors |-> 0],
     [size |-> 1, scale |-> 2, colors |-> 8],
     [size |-> 3, scale |-> 0, colors |-> 0],
     [size |-> -1, scale |-> -1, colors |-> -1]}

NoReq == [size |-> 0, scale |-> 0, colors |-> 0]

\* The arguments of a ConvertImage call.
NoCall == [img |-> EmptyImage, pixelSize |-> 0, scale |-> 0, colors |-> 0]

NoResp ==
    [status |-> 0, msg |-> "", sessionId |-> 0, width |-> 0, height |-> 0,
     converted |-> FALSE, call |-> NoCall, body |-> "", handler |-> "", req |-> NoReq]

\* A request goroutine's locals; touched is history: the request has set its
\* session's LastUsed to the time of that write.
Idle ==
    [pc |-> "idle", id |-> 0, session |-> 0, img |-> EmptyImage, touched |-> FALSE,
     resp |-> NoResp]

\* http.Error(w, msg, status)
HttpError(status, msg) == [NoResp EXCEPT !.status = status, !.msg = msg]

\* The handler has answered.
Done(l, resp) == [l EXCEPT !.pc = "done", !.img = EmptyImage, !.resp = resp]

\* png.Encode rejects an image without pixels.
PngEncodeFails(b) == Dx(b) <= 0 \/ Dy(b) <= 0

\* sync.RWMutex
Unlocked == [writer |-> {}, readers |-> {}, reaper |-> FALSE]

CanLock == mu.writer = {} /\ mu.readers = {} /\ ~mu.reaper

CanRLock == mu.writer = {} /\ ~mu.reaper

Lock(h) == [mu EXCEPT !.writer = {h}]

Unlock(h) == [mu EXCEPT !.writer = mu.writer \ {h}]

RLock(h) == [mu EXCEPT !.readers = mu.readers \cup {h}]

RUnlock(h) == [mu EXCEPT !.readers = mu.readers \ {h}]

\* session, exists := s.sessions[id]   (0 is the nil pointer)
Lookup(id) == IF id \in DOMAIN sessions THEN sessions[id] ELSE 0

\* The state New() leaves: an empty map, the cleanup loop waiting for a tick.
InitStore ==
    /\ sessions = <<>>
    /\ heap = <<>>
    /\ mu = Unlocked
    /\ now = 0
    /\ tickPending = FALSE
    /\ reaperPc = "wait"
    /\ issued = <<>>
    /\ reaped = {}

NoPipeCall ==
    [op |-> "none", pixelSize |-> 0, scale |-> 0, colors |-> 0, outcome |-> "none"]

PipeIdle ==
    /\ pin = EmptyImage
    /\ pcall = NoPipeCall
    /\ pout = EmptyImage

\* The command-line program before flag.Parse; exit -1: still running.
CliStart ==
    [pc |-> "start", size |-> 0, scale |-> 0, colors |-> 0, output |-> <<>>,
     given |-> {}, bounds |-> Rect(0, 0, 0, 0), calls |-> <<>>, exit |-> -1,
     msg |-> "", before |-> "absent"]

CliIdle ==
    /\ cli = CliStart
    /\ outFile = "absent"

\* App as first rendered: no image, no preview, the default parameters (1),
\* no request under way.
NoPreview == [session |-> 0, params |-> 0]

WebStart ==
    [imageState |-> 0, params |-> 1, debouncedParams |-> 1, converted |-> NoPreview,
     isUploading |-> FALSE, isConverting |-> FALSE, inFlight |-> {},
     uploads |-> 0, requests |-> 0]

WebIdle == web = WebStart

Init ==
    /\ InitStore
    /\ hs = [h \in Handlers |-> Idle]
    /\ PipeIdle
    /\ CliIdle
    /\ WebIdle

\* ------------------------------------------------------------- handleUpload
\* The early returns: wrong method, no form file, undecodable image, no
\* randomness.
UploadReject(h) ==
    /\ hs[h].pc = "idle"
    /\ \E r \in {HttpError(405, "Method not allowed"),
                 HttpError(400, "Failed to read image"),
                 HttpError(400, "Failed to decode image"),
                 HttpError(500, "Failed to generate session ID")} :
          hs' = [hs EXCEPT ![h] = Done(hs[h], r)]
    /\ UNCHANGED <<sessions, heap, mu, now, tickPending, reaperPc, issued, reaped>>
    /\ UNCHANGED <<pipeVars, cliVars, webVars>>

\* Image img decoded and id generated, the handler takes the lock.
UploadLockWith(h, img) ==
    /\ hs[h].pc = "idle"
    /\ Len(heap) < MaxSessions
    /\ CanLock
    /\ mu' = Lock(h)
    /\ \E id \in IDs :
          hs' = [hs EXCEPT ![h] = [Idle EXCEPT !.pc = "u_insert", !.id = id, !.img = img]]
    /\ UNCHANGED <<sessions, heap, now, tickPending, reaperPc, issued, reaped>>
    /\ UNCHANGED <<pipeVars, cliVars, webVars>>

UploadLock(h) == UploadLockWith(h, UploadImage(Len(heap) + 1))

\* s.sessions[sessionID] = &Session{Image: img, CreatedAt: now, LastUsed: now}
UploadInsert(h) ==
    /\ hs[h].pc = "u_insert"
    /\ heap' = Append(heap, [Image |-> hs[h].img, CreatedAt |-> now, LastUsed |-> now])
    /\ sessions' = (hs[h].id :> (Len(heap) + 1)) @@ sessions
    /\ issued' = Append(issued, [id |-> hs[h].id, img |-> hs[h].img])
    /\ hs' = [hs EXCEPT ![h].pc = "u_unlock", ![h].session = Len(heap) + 1]
    /\ UNCHANGED <<mu, now, tickPending, reaperPc, reaped>>
    /\ UNCHANGED <<pipeVars, cliVars, webVars>>

\* The answer of handleUpload: 500 when the preview cannot be encoded.
UploadResponse(id, img) ==
    IF PngEncodeFails(img.bounds)
    THEN HttpError(500, "Failed to encode image")
    ELSE [NoResp EXCEPT !.status = 200, !.sessionId = id, !.width = Dx(img.bounds),
                        !.height = Dy(img.bounds), !.body = "json"]

\* Variant: the lock is kept until the handler returns (a deferred Unlock).
UploadUnlockDeferred(h) ==
    /\ hs[h].pc = "u_unlock"
    /\ hs' = [hs EXCEPT ![h].pc = "u_encode"]
    /\ UNCHANGED <<sessions, heap, mu, now, tickPending, reaperPc, issued, reaped>>
    /\ UNCHANGED <<pipeVars, cliVars, webVars>>

\* s.mu.Unlock()
UploadUnlock(h) ==
    /\ hs[h].pc = "u_unlock"
    /\ mu' = Unlock(h)
    /\ hs' = [hs EXCEPT ![h].pc = "u_encode"]
    /\ UNCHANGED <<sessions, heap, now, tickPending, reaperPc, issued, reaped>>
    /\ UNCHANGED <<pipeVars, cliVars, webVars>>

\* The preview is encoded and the answer written.
UploadEncode(h) ==
    /\ hs[h].pc = "u_encode"
    /\ hs' = [hs EXCEPT ![h] = Done(hs[h], UploadResponse(hs[h].id, hs[h].img))]
    /\ UNCHANGED <<sessions, heap, mu, now, tickPending, reaperPc, issued, reaped>>
    /\ UNCHANGED <<pipeVars, cliVars, webVars>>

\* ------------------------------------------------ handleConvert, handleDownload
\* "Apply defaults"
ApplySize(size) == IF size <= 0 THEN DefaultSize ELSE size

\* Variant: only a negative scale gets the default.
ApplyScaleNegativeOnly(scale) == IF scale < 0 THEN DefaultScale ELSE scale

ApplyScale(scale) == IF scale <= 0 THEN DefaultScale ELSE scale

\* result := ConvertImage(session.Image, req.Size, req.Scale, req.Colors), as
\* the arguments of the call.
ConvertCall(s, req) ==
    [img |-> s.Image, pixelSize |-> ApplySize(req.size), scale |-> ApplyScale(req.scale),
     colors |-> req.colors]

CallBounds(c) == ConvertBounds(c.img, c.pixelSize, c.scale)

\* Variant: the miss is written without its status.
NotFoundWithoutStatus == [NoResp EXCEPT !.status = 200, !.msg = "Session not found"]

NotFound == HttpError(404, "Session not found")

\* Variant: the touch also keeps a downscaled copy in the session.
TouchStoringImage(s, t) == [s EXCEPT !.LastUsed = t, !.Image = Downscale(s.Image, 1)]

\* session.LastUsed = time.Now()
Touch(s, t) == [s EXCEPT !.LastUsed = t]

\* The early returns of both handlers: wrong method, undecodable body.
RequestReject(h) ==
    /\ hs[h].pc = "idle"
    /\ \E r \in {HttpError(405, "Method not allowed"), HttpError(400, "Invalid request body")} :
          hs' = [hs EXCEPT ![h] = Done(hs[h], r)]
    /\ UNCHANGED <<sessions, heap, mu, now, tickPending, reaperPc, issued, reaped>>
    /\ UNCHANGED <<pipeVars, cliVars, webVars>>

\* Body decoded, the handler takes the read lock.
ConvertRLock(h) ==
    /\ hs[h].pc = "idle"
    /\ CanRLock
    /\ mu' = RLock(h)
    /\ \E id \in IDs : hs' = [hs EXCEPT ![h] = [Idle EXCEPT !.pc = "c_lookup", !.id = id]]
    /\ UNCHANGED <<sessions, heap, now, tickPending, reaperPc, issued, reaped>>
    /\ UNCHANGED <<pipeVars, cliVars, webVars>>

ConvertLookup(h) ==
    /\ hs[h].pc = "c_lookup"
    /\ hs' = [hs EXCEPT ![h].pc = "c_runlock", ![h].session = Lookup(hs[h].id)]
    /\ UNCHANGED <<sessions, heap, mu, now, tickPending, reaperPc, issued, reaped>>
    /\ UNCHANGED <<pipeVars, cliVars, webVars>>

\* RUnlock, then "if !exists".
ConvertRUnlock(h) ==
    /\ hs[h].pc = "c_runlock"
    /\ mu' = RUnlock(h)
    /\ hs' = [hs EXCEPT ![h] = IF hs[h].session = 0
                               THEN Done(hs[h], NotFound)
                               ELSE [hs[h] EXCEPT !.pc = "c_lock"]]
    /\ UNCHANGED <<sessions, heap, now, tickPending, reaperPc, issued, reaped>>
    /\ UNCHANGED <<pipeVars, cliVars, webVars>>

\* Variant: the touch is made under the read lock.
ConvertLockShared(h) ==
    /\ hs[h].pc = "c_lock"
    /\ CanRLock
    /\ mu' = RLock(h)
    /\ hs' = [hs EXCEPT ![h].pc = "c_touch"]
    /\ UNCHANGED <<sessions, heap, now, tickPending, reaperPc, issued, reaped>>
    /\ UNCHANGED <<pipeVars, cliVars, webVars>>

ConvertLock(h) ==
    /\ hs[h].pc = "c_lock"
    /\ CanLock
    /\ mu' = Lock(h)
    /\ hs' = [hs EXCEPT ![h].pc = "c_touch"]
    /\ UNCHANGED <<sessions, heap, now, tickPending, reaperPc, issued, reaped>>
    /\ UNCHANGED <<pipeVars, cliVars, webVars>>

ConvertTouch(h) ==
    /\ hs[h].pc = "c_touch"
    /\ heap' = [heap EXCEPT ![hs[h].session] = Touch(heap[hs[h].session], now)]
    /\ hs' = [hs EXCEPT ![h].pc = "c_unlock",
                        ![h].touched = (heap'[hs[h].session].LastUsed = now)]
    /\ UNCHANGED <<sessions, mu, now, tickPending, reaperPc, issued, reaped>>
    /\ UNCHANGED <<pipeVars, cliVars, webVars>>

\* The JSON answer of handleConvert: 500 when png.Encode fails.
ConvertResponse(c) ==
    IF PngEncodeFails(CallBounds(c))
    THEN [HttpError(500, "Failed to encode result") EXCEPT
             !.converted = TRUE, !.call = c, !.handler = "convert"]
    ELSE [NoResp EXCEPT !.status = 200, !.converted = TRUE, !.call = c, !.body = "json",
                        !.width = Dx(CallBounds(c)), !.height = Dy(CallBounds(c)),
                        !.handler = "convert"]

\* s.mu.Unlock() after the LastUsed write.
ConvertUnlock(h) ==
    /\ hs[h].pc = "c_unlock"
    /\ mu' = Unlock(h)
    /\ hs' = [hs EXCEPT ![h].pc = "c_convert"]
    /\ UNCHANGED <<sessions, heap, now, tickPending, reaperPc, issued, reaped>>
    /\ UNCHANGED <<pipeVars, cliVars, webVars>>

\* Defaults, conversion, encoding and the answer.  The decoded size, scale
\* and colors are read here for the first time.
ConvertRespond(h) ==
    /\ hs[h].pc = "c_convert"
    /\ mu' = mu
    /\ \E req \in ReqParams :
          hs' = [hs EXCEPT ![h] =
                    Done(hs[h], [ConvertResponse(ConvertCall(heap[hs[h].session], req))
                                    EXCEPT !.req = req])]
    /\ UNCHANGED <<sessions, heap, now, tickPending, reaperPc, issued, reaped>>
    /\ UNCHANGED <<pipeVars, cliVars, webVars>>

DownloadRLock(h) ==
    /\ hs[h].pc = "idle"
    /\ CanRLock
    /\ mu' = RLock(h)
    /\ \E id \in IDs : hs' = [hs EXCEPT ![h] = [Idle EXCEPT !.pc = "d_lookup", !.id = id]]
    /\ UNCHANGED <<sessions, heap, now, tickPending, reaperPc, issued, reaped>>
    /\ UNCHANGED <<pipeVars, cliVars, webVars>>

DownloadLookup(h) ==
    /\ hs[h].pc = "d_lookup"
    /\ hs' = [hs EXCEPT ![h].pc = "d_runlock", ![h].session = Lookup(hs[h].id)]
    /\ UNCHANGED <<sessions, heap, mu, now, tickPending, reaperPc, issued, reaped>>
    /\ UNCHANGED <<pipeVars, cliVars, webVars>>

\* The answer of handleDownload: the headers are written first and the error
\* of png.Encode(w, result) is dropped.
DownloadResponse(c) ==
    [NoResp EXCEPT !.status = 200, !.converted = TRUE, !.call = c,
                   !.body = IF PngEncodeFails(CallBounds(c)) THEN "" ELSE "png",
                   !.width = Dx(CallBounds(c)), !.height = Dy(CallBounds(c)),
                   !.handler = "download"]

\* RUnlock, then "if !exists".
DownloadRUnlock(h) ==
    /\ hs[h].pc = "d_runlock"
    /\ mu' = RUnlock(h)
    /\ hs' = [hs EXCEPT ![h] = IF hs[h].session = 0
                               THEN Done(hs[h], NotFound)
                               ELSE [hs[h] EXCEPT !.pc = "d_convert"]]
    /\ UNCHANGED <<sessions, heap, now, tickPending, reaperPc, issued, reaped>>
    /\ UNCHANGED <<pipeVars, cliVars, webVars>>

\* Defaults, conversion and the answer.
DownloadRespond(h) ==
    /\ hs[h].pc = "d_convert"
    /\ mu' = mu
    /\ \E req \in ReqParams :
          hs' = [hs EXCEPT ![h] =
                    Done(hs[h], [DownloadResponse(ConvertCall(heap[hs[h].session], req))
                                    EXCEPT !.req = req])]
    /\ UNCHANGED <<sessions, heap, now, tickPending, reaperPc, issued, reaped>>
    /\ UNCHANGED <<pipeVars, cliVars, webVars>>

\* The handler returns; the goroutine slot serves the next request.
Finish(h) ==
    /\ hs[h].pc = "done"
    /\ hs' = [hs EXCEPT ![h] = Idle]
    /\ UNCHANGED <<sessions, heap, mu, now, tickPending, reaperPc, issued, reaped>>
    /\ UNCHANGED <<pipeVars, cliVars, webVars>>

\* ------------------------------------------------------ ticker, cleanupLoop
\* Variant: a session expires one tick interval after the threshold.
ExpiredOneTickLate(s, t) == t - s.LastUsed > IdleThreshold + TickInterval

\* Variant: a session idle for exactly the threshold expires.
ExpiredAtThreshold(s, t) == t - s.LastUsed >= IdleThreshold

\* now.Sub(session.LastUsed) > 30*time.Minute
Expired(s, t) == t - s.LastUsed > IdleThreshold

\* The instants at which this model lets requests and ticks happen: the start,
\* the idle threshold, and the ticks after it.  Up to the idle threshold no
\* session can have expired, so the ticks skipped before it delete nothing.
Instants == {0} \cup {IdleThreshold + k * TickInterval : k \in 0 .. MaxLateTicks}

\* Time passes to the next instant and the ticker sends on ticker.C
\* (capacity 1: the tick is dropped when one still waits).
Tick ==
    /\ \E t \in Instants :
          /\ t > now
          /\ \A u \in Instants : u > now => t <= u
          /\ now' = t
    /\ tickPending' = TRUE
    /\ UNCHANGED <<sessions, heap, mu, reaperPc, hs, issued, reaped>>
    /\ UNCHANGED <<pipeVars, cliVars, webVars>>

\* "for range ticker.C", then s.mu.Lock()
ReaperLock ==
    /\ reaperPc = "wait"
    /\ tickPending
    /\ CanLock
    /\ tickPending' = FALSE
    /\ mu' = [mu EXCEPT !.reaper = TRUE]
    /\ reaperPc' = "scan"
    /\ UNCHANGED <<sessions, heap, now, hs, issued, reaped>>
    /\ UNCHANGED <<pipeVars, cliVars, webVars>>

\* now := time.Now(), then the loop deleting every expired session.
ReaperScan ==
    /\ reaperPc = "scan"
    /\ LET dead == {id \in DOMAIN sessions : Expired(heap[sessions[id]], now)}
       IN  /\ sessions' = [id \in DOMAIN sessions \ dead |-> sessions[id]]
           /\ reaped' = reaped \cup {sessions[id] : id \in dead}
    /\ reaperPc' = "unlock"
    /\ UNCHANGED <<heap, mu, now, tickPending, hs, issued>>
    /\ UNCHANGED <<pipeVars, cliVars, webVars>>

ReaperUnlock ==
    /\ reaperPc = "unlock"
    /\ mu' = [mu EXCEPT !.reaper = FALSE]
    /\ reaperPc' = "wait"
    /\ UNCHANGED <<sessions, heap, now, tickPending, hs, issued, reaped>>
    /\ UNCHANGED <<pipeVars, cliVars, webVars>>

\* -------------------------------------------------------------------- Spec
Next ==
    \/ \E h \in Handlers :
          \/ UploadReject(h)
          \/ UploadLock(h)
          \/ UploadInsert(h)
          \/ UploadUnlock(h)
          \/ UploadEncode(h)
          \/ RequestReject(h)
          \/ ConvertRLock(h)
          \/ ConvertLookup(h)
          \/ ConvertRUnlock(h)
          \/ ConvertLock(h)
          \/ ConvertTouch(h)
          \/ ConvertUnlock(h)
          \/ ConvertRespond(h)
          \/ DownloadRLock(h)
          \/ DownloadLookup(h)
          \/ DownloadRUnlock(h)
          \/ DownloadRespond(h)
          \/ Finish(h)
    \/ Tick
    \/ ReaperLock
    \/ ReaperScan
    \/ ReaperUnlock

Spec == Init /\ [][Next]_vars

\* RaceSpec: one more request goroutine, at the first tick: the state Tick
\* leaves from Init, and no further time passes.
RaceHandlers == 1 .. (NumHandlers + 1)

RaceInit ==
    /\ sessions = <<>>
    /\ heap = <<>>
    /\ mu = Unlocked
    /\ now = IdleThreshold
    /\ tickPending = TRUE
    /\ reaperPc = "wait"
    /\ issued = <<>>
    /\ reaped = {}
    /\ hs = [h \in RaceHandlers |-> Idle]
    /\ PipeIdle
    /\ CliIdle
    /\ WebIdle

RaceNext ==
    \/ \E h \in RaceHandlers :
          \/ UploadLock(h)
          \/ UploadInsert(h)
          \/ UploadUnlock(h)
          \/ UploadEncode(h)
          \/ ConvertRLock(h)
          \/ ConvertLookup(h)
          \/ ConvertRUnlock(h)
          \/ ConvertLock(h)
          \/ ConvertTouch(h)
          \/ ConvertUnlock(h)
          \/ ConvertRespond(h)
          \/ DownloadRLock(h)
          \/ DownloadLookup(h)
          \/ DownloadRUnlock(h)
          \/ DownloadRespond(h)
          \/ Finish(h)
    \/ ReaperLock
    \/ ReaperScan
    \/ ReaperUnlock

RaceSpec == RaceInit /\ [][RaceNext]_vars

\* ---------------------------------------------------------------- LiveSpec
\* The ticker fires every TickInterval and a pass of cleanupLoop, a few map
\* operations under the lock, ends long before the next tick: time moves on
\* only when the last tick has been taken and its pass is over.
PacedTick ==
    /\ ~tickPending
    /\ reaperPc = "wait"
    /\ Tick

\* cleanupLoop has its tick and is blocked in s.mu.Lock().
WriterWaits == tickPending /\ reaperPc = "wait"

\* s.mu.RLock() blocks while a Lock call waits: a sync.RWMutex lets no new
\* reader in ahead of a blocked writer.
LiveConvertRLock(h) == ~WriterWaits /\ ConvertRLock(h)

LiveDownloadRLock(h) == ~WriterWaits /\ DownloadRLock(h)

\* The steps a request goroutine makes while it holds the lock.
CriticalStep(h) ==
    \/ UploadInsert(h) \/ UploadUnlock(h)
    \/ ConvertLookup(h) \/ ConvertRUnlock(h)
    \/ ConvertTouch(h) \/ ConvertUnlock(h)
    \/ DownloadLookup(h) \/ DownloadRUnlock(h)

LiveNext ==
    \/ \E h \in Handlers :
          \/ UploadLock(h)
          \/ UploadInsert(h)
          \/ UploadUnlock(h)
          \/ UploadEncode(h)
          \/ LiveConvertRLock(h)
          \/ ConvertLookup(h)
          \/ ConvertRUnlock(h)
          \/ ConvertLock(h)
          \/ ConvertTouch(h)
          \/ ConvertUnlock(h)
          \/ ConvertRespond(h)
          \/ LiveDownloadRLock(h)
          \/ DownloadLookup(h)
          \/ DownloadRUnlock(h)
          \/ DownloadRespond(h)
          \/ Finish(h)
    \/ PacedTick
    \/ ReaperLock
    \/ ReaperScan
    \/ ReaperUnlock

\* A goroutine that holds the lock keeps running; a goroutine blocked in
\* Lock gets the mutex once it is free again and again (sync.RWMutex keeps
\* new readers out while a writer waits, sync.Mutex hands over to a starved
\* waiter).
Fairness ==
    /\ \A h \in Handlers : WF_vars(CriticalStep(h))
    /\ SF_vars(ReaperLock)
    /\ WF_vars(ReaperScan)
    /\ WF_vars(ReaperUnlock)

LiveSpec == Init /\ [][LiveNext]_vars /\ Fairness

\* -------------------------------------------------------------- UploadSpec
\* What image.Decode can hand to handleUpload, an image of which png.Encode
\* returns an error included: the case of the branch "Failed to encode image".
DecodedImages == {UploadImage(1), UploadImage(2), MkImage(2, 0, 0)}

UploadLockDecoded(h) == \E img \in DecodedImages : UploadLockWith(h, img)

UploadNext ==
    \E h \in Handlers :
       \/ UploadReject(h)
       \/ UploadLockDecoded(h)
       \/ UploadInsert(h)
       \/ UploadUnlock(h)
       \/ UploadEncode(h)
       \/ Finish(h)

UploadSpec == Init /\ [][UploadNext]_vars

\* ---------------------------------------------------------------- PipeSpec
\* The images the pipeline functions are applied to.
PipeImages == {MkImage(w, h, v) : w \in 1 .. MaxW, h \in 0 .. MaxH, v \in {0, 1}}

ColorCounts == (-2) .. MaxColors

\* The targetWidth and scaleFactor arguments, invalid ones included.
TargetWidths == (0 - MaxInvalid) .. MaxTarget

ScaleFactors == (0 - MaxInvalid) .. MaxScale

\* How a stage call ends: Downscale and UpscaleNearestNeighbor have no error
\* result and no statement that panics for a source of width >= 1, whatever
\* the argument: they return an image.
StageOutcome(arg) == "image"

PipeInit ==
    /\ InitStore
    /\ hs = [h \in Handlers |-> Idle]
    /\ pin \in PipeImages \cup {ExampleImage, WideImage}
    /\ pcall = NoPipeCall
    /\ pout = EmptyImage
    /\ CliIdle
    /\ WebIdle

PipeDownscale ==
    /\ pcall.op = "none"
    /\ \E tw \in TargetWidths :
          /\ pcall' = [NoPipeCall EXCEPT !.op = "Downscale", !.pixelSize = tw,
                                         !.outcome = StageOutcome(tw)]
          /\ pout' = Downscale(pin, tw)
    /\ UNCHANGED <<pin, serverVars, cliVars, webVars>>

PipeQuantize ==
    /\ pcall.op = "none"
    /\ \E c \in ColorCounts :
          /\ pcall' = [NoPipeCall EXCEPT !.op = "Quantize", !.colors = c]
          /\ pout' = QuantizeColors(pin, c)
    /\ UNCHANGED <<pin, serverVars, cliVars, webVars>>

PipeUpscale ==
    /\ pcall.op = "none"
    /\ \E s \in ScaleFactors :
          /\ pcall' = [NoPipeCall EXCEPT !.op = "Upscale", !.scale = s,
                                         !.outcome = StageOutcome(s)]
          /\ pout' = UpscaleNearestNeighbor(pin, s)
    /\ UNCHANGED <<pin, serverVars, cliVars, webVars>>

PipeConvert ==
    /\ pcall.op = "none"
    /\ \E tw \in 1 .. MaxTarget, s \in 1 .. MaxScale, c \in ColorCounts :
          /\ pcall' = [op |-> "Convert", pixelSize |-> tw, scale |-> s, colors |-> c,
                       outcome |-> "image"]
          /\ pout' = ConvertImage(pin, tw, s, c)
    /\ UNCHANGED <<pin, serverVars, cliVars, webVars>>

\* ConvertImage(img, 50, 4, 8) on the 100 x 50 source.
PipeExample ==
    /\ pcall.op = "none"
    /\ pin = ExampleImage
    /\ pcall' = [op |-> "Convert", pixelSize |-> 50, scale |-> 4, colors |-> 8,
                 outcome |-> "image"]
    /\ pout' = ConvertImage(pin, 50, 4, 8)
    /\ UNCHANGED <<pin, serverVars, cliVars, webVars>>

\* Downscale of the 26 x 2 source to a width near its own, above it too.
PipeDownscaleWide ==
    /\ pcall.op = "none"
    /\ pin = WideImage
    /\ \E tw \in {13, 23, 26, 30} :
          /\ pcall' = [NoPipeCall EXCEPT !.op = "Downscale", !.pixelSize = tw,
                                         !.outcome = StageOutcome(tw)]
          /\ pout' = Downscale(pin, tw)
    /\ UNCHANGED <<pin, serverVars, cliVars, webVars>>

PipeNext ==
    \/ PipeDownscale \/ PipeQuantize \/ PipeUpscale \/ PipeConvert
    \/ PipeExample \/ PipeDownscaleWide

PipeSpec == PipeInit /\ [][PipeNext]_vars

\* ---------------------------------------------------------------- ChanSpec
\* QuantizeColors on single pixels, over every value a channel can hold.
ChanValues == 0 .. 255

ChanColorCounts == 1 .. MaxChanColors

\* A 1 x 1 image whose red channel is v, with green and blue other values.
ChanImage(v, a) ==
    [bounds |-> Rect(0, 0, 1, 1),
     pix |-> [p \in Points(Rect(0, 0, 1, 1)) |-> <<v, (v + 85) % 256, 255 - v, a>>]]

ChanInit ==
    /\ InitStore
    /\ hs = [h \in Handlers |-> Idle]
    /\ pin \in {ChanImage(v, a) : v \in ChanValues, a \in {128, 255}}
    /\ pcall = NoPipeCall
    /\ pout = EmptyImage
    /\ CliIdle
    /\ WebIdle

\* One QuantizeColors(img, c) call.
ChanQuantize ==
    /\ pcall.op = "none"
    /\ \E c \in ChanColorCounts :
          /\ pcall' = [NoPipeCall EXCEPT !.op = "QuantizeColors", !.colors = c]
          /\ pout' = QuantizeColors(pin, c)
    /\ UNCHANGED <<pin, serverVars, cliVars, webVars>>

\* QuantizeColors applied again, with the same numColors, to its own result.
ChanRequantize ==
    /\ pcall.op = "QuantizeColors"
    /\ pcall' = [pcall EXCEPT !.op = "requantize"]
    /\ pin' = pout
    /\ pout' = QuantizeColors(pout, pcall.colors)
    /\ UNCHANGED <<serverVars, cliVars, webVars>>

\* Every value one QuantizeColors(img, c) call can store in a channel.
ChanLevels ==
    /\ pcall.op = "none"
    /\ pin = ChanImage(0, 255)
    /\ \E c \in ChanColorCounts :
          /\ pcall' = [NoPipeCall EXCEPT !.op = "levels", !.colors = c]
          /\ pout' = {quantizeChannel(v, QuantStep(c)) : v \in ChanValues}
    /\ UNCHANGED <<pin, serverVars, cliVars, webVars>>

ChanNext == ChanQuantize \/ ChanRequantize \/ ChanLevels

ChanSpec == ChanInit /\ [][ChanNext]_vars

\* ----------------------------------------------------------------- CliSpec
\* The flags main defines, and the integers a command line gives them.
Flags == {"input", "output", "size", "scale", "colors"}

FlagInts == (-1) .. MaxFlag

\* flag.Int / flag.String: the value given, the default without the flag.
FlagValue(given, name, value, default) == IF name \in given THEN value ELSE default

\* File names, as their characters.
DefaultOutput == <<"o", "u", "t", "p", "u", "t", ".", "p", "n", "g">>

OutputFiles ==
    {<<"o", ".", "p", "n", "g">>, <<"o", ".", "P", "N", "G">>,
     <<"o", ".", "J", "p", "g">>, <<"o", ".", "j", "p", "e", "g">>,
     <<"o", ".", "g", "i", "f">>, <<"o", ".", "p", "n", "g", ".", "G", "I", "F">>,
     <<"o">>}

\* filepath.Ext: the suffix from the last dot on, empty without a dot.
Ext(name) ==
    LET dots == {i \in DOMAIN name : name[i] = "."}
    IN  IF dots = {} THEN <<>>
        ELSE SubSeq(name, CHOOSE i \in dots : \A j \in dots : j <= i, Len(name))

LowerRune(c) ==
    CASE c = "P" -> "p" [] c = "N" -> "n" [] c = "G" -> "g" [] c = "J" -> "j"
      [] c = "E" -> "e" [] c = "I" -> "i" [] c = "F" -> "f" [] OTHER -> c

\* strings.ToLower
ToLower(s) == [i \in DOMAIN s |-> LowerRune(s[i])]

\* jpeg.Encode rejects only an image of 65536 or more pixels a side.
JpegEncodeFails(b) == Dx(b) >= 65536 \/ Dy(b) >= 65536

\* Variant: -colors 0 quantizes too.
CliQuantizesFromZero(colors) == colors >= 0

\* "if *colors > 0"
CliQuantizes(colors) == colors > 0

\* os.Exit(1) after the message.
CliFail(c, msg) == [c EXCEPT !.pc = "done", !.exit = 1, !.msg = msg]

\* A run starts with the output path absent or holding an earlier file.
CliInit ==
    /\ InitStore
    /\ hs = [h \in Handlers |-> Idle]
    /\ PipeIdle
    /\ outFile \in {"absent", "old"}
    /\ cli = [CliStart EXCEPT !.before = outFile]
    /\ WebIdle

\* flag.Parse and the -input check.
CliParse ==
    /\ cli.pc = "start"
    /\ \E given \in SUBSET Flags, size \in FlagInts, scale \in FlagInts,
          colors \in FlagInts, output \in OutputFiles :
          LET parsed == [cli EXCEPT
                            !.given = given,
                            !.size = FlagValue(given, "size", size, CliDefaultSize),
                            !.scale = FlagValue(given, "scale", scale, CliDefaultScale),
                            !.colors = FlagValue(given, "colors", colors, CliDefaultColors),
                            !.output = FlagValue(given, "output", output, DefaultOutput)]
          IN  cli' = IF "input" \in given
                     THEN [parsed EXCEPT !.pc = "load"]
                     ELSE CliFail(parsed, "Error: -input flag is required")
    /\ UNCHANGED <<outFile, serverVars, pipeVars, webVars>>

\* loadImage: an error, or an image of some size.
CliLoad ==
    /\ cli.pc = "load"
    /\ \/ cli' = CliFail(cli, "Error loading image")
       \/ \E w \in 1 .. MaxW, h \in 1 .. MaxH :
             cli' = [cli EXCEPT !.pc = "downscale", !.bounds = Rect(0, 0, w, h)]
    /\ UNCHANGED <<outFile, serverVars, pipeVars, webVars>>

\* smallImg := downscale(img, *pixelSize)
CliDownscale ==
    /\ cli.pc = "downscale"
    /\ cli' = [cli EXCEPT
                  !.pc = "quantize",
                  !.calls = Append(@, [op |-> "downscale", arg |-> cli.size]),
                  !.bounds = DownscaleBounds([bounds |-> cli.bounds], cli.size)]
    /\ UNCHANGED <<outFile, serverVars, pipeVars, webVars>>

\* "if *colors > 0 { smallImg = quantizeColors(smallImg, *colors) }"
CliQuantize ==
    /\ cli.pc = "quantize"
    /\ cli' = [cli EXCEPT
                  !.pc = "upscale",
                  !.calls = IF CliQuantizes(cli.colors)
                            THEN Append(@, [op |-> "quantizeColors", arg |-> cli.colors])
                            ELSE @]
    /\ UNCHANGED <<outFile, serverVars, pipeVars, webVars>>

\* finalImg := upscaleNearestNeighbor(smallImg, *scale)
CliUpscale ==
    /\ cli.pc = "upscale"
    /\ cli' = [cli EXCEPT
                  !.pc = "create",
                  !.calls = Append(@, [op |-> "upscale", arg |-> cli.scale]),
                  !.bounds = UpscaleBounds(cli.bounds, cli.scale)]
    /\ UNCHANGED <<outFile, serverVars, pipeVars, webVars>>

\* saveImage: os.Create(filename) creates the file or truncates it, or fails.
CliCreate ==
    /\ cli.pc = "create"
    /\ \/ /\ cli' = [cli EXCEPT !.pc = "encode"]
          /\ outFile' = "empty"
       \/ /\ cli' = CliFail(cli, "could not create file")
          /\ outFile' = outFile
    /\ UNCHANGED <<serverVars, pipeVars, webVars>>

\* saveImage: the switch on the lower-cased extension, and main's exit.
CliEncode ==
    /\ cli.pc = "encode"
    /\ LET ext == ToLower(Ext(cli.output))
           saved(format) == /\ cli' = [cli EXCEPT !.pc = "done", !.exit = 0,
                                                   !.msg = "Saved"]
                            /\ outFile' = format
           failed(msg) == /\ cli' = CliFail(cli, msg)
                          /\ outFile' = outFile
       IN  IF ext = <<".", "p", "n", "g">>
           THEN IF PngEncodeFails(cli.bounds)
                THEN failed("could not encode image")
                ELSE saved("png")
           ELSE IF ext \in {<<".", "j", "p", "g">>, <<".", "j", "p", "e", "g">>}
           THEN IF JpegEncodeFails(cli.bounds)
                THEN failed("could not encode image")
                ELSE saved("jpeg")
           ELSE failed("unsupported output format")
    /\ UNCHANGED <<serverVars, pipeVars, webVars>>

CliNext ==
    \/ CliParse \/ CliLoad \/ CliDownscale \/ CliQuantize \/ CliUpscale
    \/ CliCreate \/ CliEncode

CliSpec == CliInit /\ [][CliNext]_vars

\* ----------------------------------------------------------------- WebSpec
\* The component App of the web client.  imageState is the session id shown
\* (0: null), params and debouncedParams are parameter settings (1: the
\* defaults), converted is the preview as the convert request that produced
\* it, inFlight the convert requests sent and not yet answered.  uploads and
\* requests count the sessions created and the convert requests sent.
WebParams == 1 .. MaxWebParams

\* The effect on [imageState, debouncedParams]: with an image loaded, doConvert
\* sets isConverting and sends a convert request for it.
ConvertEffect(w) ==
    IF w.imageState = 0 THEN w
    ELSE [w EXCEPT !.isConverting = TRUE,
                   !.inFlight = @ \cup {[session |-> w.imageState,
                                          params |-> w.debouncedParams]},
                   !.requests = @ + 1]

\* handleUpload up to its await: the uploader is shown while no image is
\* loaded and takes no file while isUploading.
WebUploadStart ==
    /\ web.imageState = 0
    /\ ~web.isUploading
    /\ web.uploads < MaxWebUploads
    /\ web' = [web EXCEPT !.isUploading = TRUE, !.converted = NoPreview]
    /\ UNCHANGED <<serverVars, pipeVars, cliVars>>

\* The upload response arrives: setImageState, and the effect runs.
WebUploadDone ==
    /\ web.isUploading
    /\ web.requests < MaxWebRequests
    /\ web' = ConvertEffect([web EXCEPT !.isUploading = FALSE,
                                        !.imageState = web.uploads + 1,
                                        !.uploads = @ + 1])
    /\ UNCHANGED <<serverVars, pipeVars, cliVars>>

\* The upload fails: setError.
WebUploadFail ==
    /\ web.isUploading
    /\ web' = [web EXCEPT !.isUploading = FALSE]
    /\ UNCHANGED <<serverVars, pipeVars, cliVars>>

\* A slider moves; the sliders are shown with an image loaded and disabled
\* while isConverting.
WebSetParams ==
    /\ web.imageState # 0
    /\ ~web.isConverting
    /\ \E p \in WebParams :
          /\ p # web.params
          /\ web' = [web EXCEPT !.params = p]
    /\ UNCHANGED <<serverVars, pipeVars, cliVars>>

\* useDebounce(params, 300): the debounced value follows, and the effect runs.
WebDebounce ==
    /\ web.debouncedParams # web.params
    /\ web.requests < MaxWebRequests
    /\ web' = ConvertEffect([web EXCEPT !.debouncedParams = web.params])
    /\ UNCHANGED <<serverVars, pipeVars, cliVars>>

\* The answer to one convert request arrives: setConverted, and "finally"
\* clears isConverting.
WebConvertDone ==
    /\ \E r \in web.inFlight :
          web' = [web EXCEPT !.converted = r, !.isConverting = FALSE,
                             !.inFlight = @ \ {r}]
    /\ UNCHANGED <<serverVars, pipeVars, cliVars>>

\* handleReset, behind the "New Image" button shown with an image loaded.
WebReset ==
    /\ web.imageState # 0
    /\ web' = [web EXCEPT !.imageState = 0, !.converted = NoPreview, !.params = 1]
    /\ UNCHANGED <<serverVars, pipeVars, cliVars>>

WebInit ==
    /\ InitStore
    /\ hs = [h \in Handlers |-> Idle]
    /\ PipeIdle
    /\ CliIdle
    /\ WebIdle

WebNext ==
    \/ WebUploadStart \/ WebUploadDone \/ WebUploadFail
    \/ WebSetParams \/ WebDebounce \/ WebConvertDone \/ WebReset

WebSpec == WebInit /\ [][WebNext]_vars

\* ================================================================== claims
Range(f) == {f[x] : x \in DOMAIN f}

\* The session objects created under id, oldest first.
IssuedUnder(id) == {r \in 1 .. Len(issued) : issued[r].id = id}

\* C1: a lookup yields the image of the upload that created the session found:
\* no session's Image is written after its creation, the map sends an id only
\* to a session created under that id, and every conversion answered reads
\* the image that upload stored.
C1_LookupYieldsUploadedImage ==
    /\ \A r \in 1 .. Len(heap) : heap[r].Image = issued[r].img
    /\ \A id \in DOMAIN sessions : sessions[id] \in IssuedUnder(id)
    /\ \A h \in DOMAIN hs :
          hs[h].pc = "done" /\ hs[h].resp.converted =>
             /\ hs[h].session \in IssuedUnder(hs[h].id)
             /\ hs[h].resp.call.img = issued[hs[h].session].img

\* A conversion of the second upload's image is answered after time has passed
\* and the cleanup loop has deleted a session.
C1_Witness ==
    \E h \in DOMAIN hs :
       /\ hs[h].pc = "done" /\ hs[h].resp.converted
       /\ hs[h].session = 2
       /\ hs[h].resp.call.img = UploadImage(2)
       /\ reaped # {}

\* C2 (as claimed): every convert and every download request that found its
\* session has set that session's LastUsed to the time of the access.
C2_EveryAccessTouches ==
    \A h \in DOMAIN hs : hs[h].pc = "done" /\ hs[h].resp.converted => hs[h].touched

\* A pass of the cleanup loop deletes exactly the sessions idle for more
\* than the threshold and leaves every other entry as it was; a deleted
\* session is never in the map again and no later lookup returns it.
C3_ScanStep ==
    reaperPc = "scan" /\ reaperPc' = "unlock" =>
       /\ heap' = heap
       /\ \A id \in DOMAIN sessions :
             IF now - heap[sessions[id]].LastUsed > IdleThreshold
             THEN id \notin DOMAIN sessions'
             ELSE id \in DOMAIN sessions' /\ sessions'[id] = sessions[id]

C3_ReapedStaysGone ==
    /\ reaped \cap Range(sessions) = {}
    /\ \A h \in DOMAIN hs :
          hs[h].pc \in {"c_runlock", "d_runlock"} => hs[h].session \notin reaped

\* C3: each pass deletes exactly the sessions idle for more than the
\* threshold, and a deleted session stays gone.
C3_ReaperTick == [][C3_ScanStep]_vars /\ []C3_ReapedStaysGone

\* One pass has deleted an expired session and kept a session within the
\* threshold.
C3_Witness ==
    /\ reaperPc = "unlock"
    /\ \E r \in reaped : now - heap[r].LastUsed > IdleThreshold
    /\ \E id \in DOMAIN sessions : now - heap[sessions[id]].LastUsed <= IdleThreshold

\* C4 (as claimed): when a convert request's LastUsed write takes effect, the
\* session it found has not been deleted by the cleanup loop.
C4_FoundSessionNotReaped ==
    \A h \in DOMAIN hs : hs[h].pc = "c_unlock" => hs[h].session \notin reaped

\* Map and timestamp accesses never race.  Every insert and LastUsed
\* write is made holding the exclusive lock, every lookup holding the shared
\* lock; no goroutine writes the map or a LastUsed while another reads or
\* writes it; a lookup still under its lock holds what the map holds, and a
\* session just inserted is what the map returns for its id.
WritesMap(h) == hs[h].pc = "u_insert"

ReadsMap(h) == hs[h].pc \in {"c_lookup", "d_lookup"}

WritesStamp(h) == hs[h].pc = "c_touch"

ScanRuns == reaperPc = "scan"

\* C5: no two goroutines touch the map or a LastUsed at once unless both
\* only read, and each access holds the lock of its kind.
C5_NoRace ==
    /\ \A h \in DOMAIN hs :
          /\ WritesMap(h) \/ WritesStamp(h) => mu.writer = {h}
          /\ ReadsMap(h) => h \in mu.readers
          /\ (WritesMap(h) \/ WritesStamp(h) \/ ReadsMap(h)) => ~ScanRuns
    /\ ScanRuns => mu.reaper
    /\ \A h1, h2 \in DOMAIN hs :
          h1 # h2 =>
             /\ ~(WritesMap(h1) /\ (WritesMap(h2) \/ ReadsMap(h2)))
             /\ ~(WritesStamp(h1) /\ WritesStamp(h2) /\ hs[h1].session = hs[h2].session)
    /\ \A h \in DOMAIN hs :
          /\ hs[h].pc \in {"c_runlock", "d_runlock"} => hs[h].session = Lookup(hs[h].id)
          /\ hs[h].pc = "u_unlock" => Lookup(hs[h].id) = hs[h].session

\* Two lookups of one id have both found the stored session, one of them still
\* under its read lock, while a third goroutine has created another id.
C5_Witness ==
    \E h1, h2, h3 \in DOMAIN hs :
       /\ h1 # h2 /\ h1 # h3 /\ h2 # h3
       /\ hs[h1].pc = "c_runlock" /\ hs[h2].pc = "c_lock"
       /\ hs[h1].id = hs[h2].id
       /\ hs[h1].session # 0 /\ hs[h1].session = hs[h2].session
       /\ hs[h3].pc = "done" /\ hs[h3].resp.status = 200 /\ ~hs[h3].resp.converted
       /\ hs[h3].id # hs[h1].id
       /\ Lookup(hs[h3].id) = hs[h3].session

\* A convert or download request whose id was never issued, or whose
\* session the cleanup loop has deleted, finds nothing; a request that finds
\* nothing is answered 404 "Session not found" with no conversion run and the
\* map and the sessions unchanged, and an answered request holds no lock.
C6_MissStep ==
    \A h \in DOMAIN hs :
       hs[h].pc \in {"c_runlock", "d_runlock"} /\ hs[h].session = 0 /\ hs'[h] # hs[h] =>
          /\ hs'[h].pc = "done"
          /\ hs'[h].resp = [NoResp EXCEPT !.status = 404, !.msg = "Session not found"]
          /\ sessions' = sessions
          /\ heap' = heap

C6_MissFound ==
    \A h \in DOMAIN hs :
       /\ hs[h].pc \in {"c_runlock", "d_runlock"}
             /\ (IssuedUnder(hs[h].id) = {} \/ IssuedUnder(hs[h].id) \subseteq reaped)
          => hs[h].session = 0
       /\ hs[h].pc = "done" => h \notin mu.readers /\ h \notin mu.writer

\* C6: a lookup of an unknown or deleted id finds nothing, and a miss is
\* answered 404 "Session not found" with the store unchanged.
C6_SessionNotFound == [][C6_MissStep]_vars /\ []C6_MissFound

\* A request for the id of a deleted session has been answered 404.
C6_Witness ==
    \E h \in DOMAIN hs :
       /\ hs[h].pc = "done" /\ hs[h].resp.status = 404
       /\ IssuedUnder(hs[h].id) # {}
       /\ IssuedUnder(hs[h].id) \subseteq reaped

\* C7 (as claimed): the id an upload inserts under is the id of no live
\* session.
C7_UploadIdFresh ==
    \A h \in DOMAIN hs : hs[h].pc = "u_insert" => hs[h].id \notin DOMAIN sessions

\* C8: Downscale of a W x H image (W >= 1) to pixelSize p >= 1 is p wide and
\* floor(H * p / W) high.
C8_DownscaleSize ==
    pcall.op = "Downscale" /\ pcall.pixelSize >= 1 =>
       LET W == Dx(pin.bounds)
           H == Dy(pin.bounds)
           p == pcall.pixelSize
       IN  /\ Dx(pout.bounds) = p
           /\ Dy(pout.bounds) = (H * p) \div W
           /\ DOMAIN pout.pix = (0 .. (p - 1)) \X (0 .. (((H * p) \div W) - 1))

\* A downscale whose exact height H * p / W is no integer.
C8_Witness ==
    /\ pcall.op = "Downscale" /\ pcall.pixelSize >= 1
    /\ (Dy(pin.bounds) * pcall.pixelSize) % Dx(pin.bounds) # 0
    /\ Dy(pout.bounds) >= 1

\* C9: UpscaleNearestNeighbor of a w x h image by s >= 1 is (w*s) x (h*s) and
\* its pixel (x, y) is the input's pixel (x div s, y div s).
C9_UpscaleBlocks ==
    pcall.op = "Upscale" /\ pcall.scale >= 1 =>
       LET w == Dx(pin.bounds)
           h == Dy(pin.bounds)
           s == pcall.scale
       IN  /\ Dx(pout.bounds) = w * s /\ Dy(pout.bounds) = h * s
           /\ DOMAIN pout.pix = (0 .. (w * s - 1)) \X (0 .. (h * s - 1))
           /\ \A p \in DOMAIN pout.pix :
                 pout.pix[p] = pin.pix[<<p[1] \div s, p[2] \div s>>]

\* An upscale by s >= 2 of an image of several pixels.
C9_Witness ==
    /\ pcall.op = "Upscale"
    /\ pcall.scale >= 2
    /\ Dx(pin.bounds) >= 2 /\ Dy(pin.bounds) >= 2

\* C10 (as claimed): QuantizeColors with colorCount <= 0 returns its input.
C10_QuantizeZeroIsIdentity ==
    pcall.op = "Quantize" /\ pcall.colors <= 0 => pout = pin

\* C10 (amended): ConvertImage with colors <= 0 runs no quantization: its
\* result is the upscaled downscale of the input, every pixel of it a pixel
\* of the input as stored, alpha included.
C10_ConvertSkipsQuantize ==
    pcall.op = "Convert" /\ pcall.colors <= 0 =>
       LET sourcePixels == Range(pin.pix)
       IN  /\ pout = UpscaleNearestNeighbor(Downscale(pin, pcall.pixelSize), pcall.scale)
           /\ \A p \in DOMAIN pout.pix : pout.pix[p] \in sourcePixels

\* A conversion with colors <= 0 whose result keeps a channel value that is
\* no two-level value.
C10_Witness ==
    /\ pcall.op = "Convert" /\ pcall.colors <= 0
    /\ \E p \in DOMAIN pout.pix : pout.pix[p][1] \notin {0, 255}

\* C11: QuantizeColors applied to its own result, with the same colorCount,
\* returns it unchanged: every quantized channel value is quantized to itself.
C11_QuantizeIdempotent ==
    pcall.op = "requantize" => pout = pin

\* A value the clamp produced (the level above 255 cut to 255) has been
\* quantized again.
C11_Witness ==
    /\ pcall.op = "requantize"
    /\ pin.pix[<<0, 0>>][1] = 255
    /\ LET step == QuantStep(pcall.colors)
       IN  step >= 1 /\ ((2 * 255 + step) \div (2 * step)) * step > 255

\* The channel values the claimed quantization can produce for colorCount c.
ClaimedLevels(c) ==
    LET g == c \div 3
        levelsPerChannel == IF g < 2 THEN 2 ELSE g
        step == 255 \div (levelsPerChannel - 1)
    IN  {IF k * step > 255 THEN 255 ELSE k * step : k \in 0 .. 255}

\* C12: ConvertImage(img, p, s, c) is UpscaleNearestNeighbor(Q(Downscale(img,
\* p)), s) with Q = QuantizeColors when c > 0 and the identity otherwise; the
\* result is (p*s) x (floor(H*p/W)*s), every aligned s x s block has one
\* colour, and with c > 0 every R, G, B value is a quantization level; the
\* 100 x 50 source with p = 50, c = 8, s = 4 gives 200 x 100 with channels in
\* {0, 255}.
C12_ConvertComposition ==
    pcall.op = "Convert" =>
       LET W == Dx(pin.bounds)
           H == Dy(pin.bounds)
           p == pcall.pixelSize
           s == pcall.scale
           c == pcall.colors
           th == (H * p) \div W
           small == Downscale(pin, p)
           q == IF c > 0 THEN QuantizeColors(small, c) ELSE small
           levels == ClaimedLevels(c)
       IN  /\ pout = UpscaleNearestNeighbor(q, s)
           /\ Dx(pout.bounds) = p * s /\ Dy(pout.bounds) = th * s
           /\ DOMAIN pout.pix = (0 .. (p * s - 1)) \X (0 .. (th * s - 1))
           /\ \A pt \in DOMAIN pout.pix :
                 pout.pix[pt] = pout.pix[<<(pt[1] \div s) * s, (pt[2] \div s) * s>>]
           /\ c > 0 =>
                 \A pt \in DOMAIN pout.pix :
                    \A i \in 1 .. 3 : pout.pix[pt][i] \in levels
           /\ (pin = ExampleImage /\ p = 50 /\ s = 4 /\ c = 8) =>
                 /\ Dx(pout.bounds) = 200 /\ Dy(pout.bounds) = 100
                 /\ \A pt \in DOMAIN pout.pix :
                       \A i \in 1 .. 3 : pout.pix[pt][i] \in {0, 255}

\* The 100 x 50 example has been converted, and its result has blocks of
\* different colours.
C12_Witness ==
    /\ pcall.op = "Convert" /\ pcall.pixelSize = 50 /\ pcall.scale = 4
    /\ pcall.colors = 8
    /\ pin = ExampleImage
    /\ Dx(pout.bounds) = 200
    /\ pout.pix[<<0, 0>>] # pout.pix[<<4, 0>>]

\* C13: every ConvertImage call of handleConvert and of handleDownload gets
\* pixelSize 64 when the request's size is <= 0, scaleFactor 8 when its scale
\* is <= 0, the request's own values otherwise, and the request's colors as
\* they are; no call has pixelSize <= 0 or scaleFactor <= 0.
C13_DefaultsApplied ==
    \A h \in DOMAIN hs :
       hs[h].pc = "done" /\ hs[h].resp.converted =>
          LET req == hs[h].resp.req
              call == hs[h].resp.call
          IN  /\ hs[h].resp.handler \in {"convert", "download"}
              /\ call.pixelSize = IF req.size <= 0 THEN 64 ELSE req.size
              /\ call.scale = IF req.scale <= 0 THEN 8 ELSE req.scale
              /\ call.colors = req.colors
              /\ call.pixelSize > 0 /\ call.scale > 0

\* A download whose request carried size 3 and scale 0 and a convert whose
\* request carried negative values have both run their conversion.
C13_Witness ==
    \E h1, h2 \in DOMAIN hs :
       /\ hs[h1].pc = "done" /\ hs[h1].resp.converted
       /\ hs[h1].resp.handler = "download"
       /\ hs[h1].resp.req.size = 3 /\ hs[h1].resp.req.scale = 0
       /\ hs[h1].resp.call.scale = 8
       /\ hs[h2].pc = "done" /\ hs[h2].resp.converted
       /\ hs[h2].resp.handler = "convert"
       /\ hs[h2].resp.req.colors = -1
       /\ hs[h2].resp.call.colors = -1 /\ hs[h2].resp.call.pixelSize = 64

\* C14 (as claimed): a conversion whose result cannot be encoded is answered
\* as a failure on the convert and on the download path: no success status
\* and no image, not an empty one either.
C14_EncodeFailureAnswered ==
    \A h \in DOMAIN hs :
       hs[h].pc = "done" /\ hs[h].resp.converted
             /\ PngEncodeFails(CallBounds(hs[h].resp.call)) =>
          /\ hs[h].resp.status >= 400
          /\ hs[h].resp.body = ""

\* C15 (as claimed): a save to a path whose lower-cased extension is not .png,
\* .jpg or .jpeg ends with the "unsupported output format" error, writes no
\* image in another format, and leaves the output path as it was: neither
\* created nor truncated.
C15_UnsupportedSaveLeavesFile ==
    cli.pc = "done" /\ Len(cli.calls) >= 2
          /\ ToLower(Ext(cli.output)) \notin
                {<<".", "p", "n", "g">>, <<".", "j", "p", "g">>, <<".", "j", "p", "e", "g">>} =>
       /\ cli.exit = 1
       /\ cli.msg = "unsupported output format"
       /\ outFile \notin {"png", "jpeg"}
       /\ outFile = cli.before

NearestLevel(v, step, r) ==
    \E k \in 0 .. 255 :
       /\ 2 * k * step - step <= 2 * v
       /\ 2 * v < 2 * k * step + step
       /\ r = IF k * step > 255 THEN 255 ELSE k * step

C19_CentreSampling ==
    pcall.op = "Downscale" =>
       LET W == Dx(pin.bounds)
           H == Dy(pin.bounds)
           tw == pcall.pixelSize
           th == (H * tw) \div W
       IN  tw >= 1 /\ th >= 1 =>
              \A p \in DOMAIN pout.pix :
                 LET srcX == ((2 * p[1] + 1) * W) \div (2 * tw)
                     srcY == ((2 * p[2] + 1) * H) \div (2 * th)
                 IN  /\ srcX \in 0 .. (W - 1) /\ srcY \in 0 .. (H - 1)
                     /\ pout.pix[p] = pin.pix[<<srcX, srcY>>]

\* C20 (as claimed): Downscale called with targetWidth <= 0 and
\* UpscaleNearestNeighbor called with scaleFactor < 1 fail: they end with an
\* error or abort, and return no image.
C20_InvalidParametersFail ==
    /\ pcall.op = "Downscale" /\ pcall.pixelSize <= 0 => pcall.outcome # "image"
    /\ pcall.op = "Upscale" /\ pcall.scale < 1 => pcall.outcome # "image"

\* The positions inside a critical section: the next statement is a map or
\* LastUsed access or the release of the lock.
CriticalPcs ==
    {"u_insert", "u_unlock", "c_lookup", "c_runlock", "c_touch", "c_unlock",
     "d_lookup", "d_runlock"}

\* The positions at which a handler reads its request, decodes, converts,
\* encodes or writes its answer.
WorkPcs == {"idle", "u_encode", "c_lock", "c_convert", "d_convert", "done"}

HoldsLock(h) == h \in mu.writer \/ h \in mu.readers

C21_LockOnlyInCriticalSection ==
    /\ \A h \in DOMAIN hs :
          /\ hs[h].pc \in CriticalPcs \cup WorkPcs
          /\ HoldsLock(h) <=> hs[h].pc \in CriticalPcs
    /\ mu.reaper <=> reaperPc \in {"scan", "unlock"}
    /\ mu.writer # {} => mu.readers = {} /\ ~mu.reaper

\* A step made with the lock held before and after it changes only the map,
\* a session, and the handler's position: it writes no answer and produces no
\* image.
C21_CriticalStep ==
    \A h \in DOMAIN hs :
       (h \in mu.writer \/ h \in mu.readers) /\ (h \in mu'.writer \/ h \in mu'.readers) =>
          /\ hs'[h].resp = hs[h].resp
          /\ hs'[h].img = hs[h].img
          /\ hs'[h].pc \in CriticalPcs

\* C21: a handler or the cleanup loop holds the session lock only inside a
\* critical section of map and LastUsed operations, never while it decodes,
\* converts, encodes or answers, and a handler that has left its critical
\* section, on any path, holds no lock.
C21_NoWorkUnderLock == []C21_LockOnlyInCriticalSection /\ [][C21_CriticalStep]_vars

\* One handler converts, its LastUsed write made and its lock released,
\* while another handler holds the exclusive lock.
C21_Witness ==
    \E h1, h2 \in DOMAIN hs :
       /\ h1 # h2
       /\ hs[h1].pc = "c_convert" /\ hs[h1].touched
       /\ mu.writer = {h2}

\* The session object r is in the map.
InStore(r) == \E id \in DOMAIN sessions : sessions[id] = r

IdleTime(r) == now - heap[r].LastUsed

\* No stored session is ever idle for more than the threshold plus one tick,
\* and a stored session idle for more than the threshold is one that the pass
\* of the current tick has not scanned yet.
C22_RemovedWithinOneTick ==
    \A r \in 1 .. Len(heap) :
       InStore(r) /\ IdleTime(r) > IdleThreshold =>
          /\ IdleTime(r) <= IdleThreshold + TickInterval
          /\ tickPending \/ reaperPc = "scan"

\* C22: with the ticker firing every 5 minutes, a session idle for more than
\* 30 minutes is removed unless it is accessed again, by the pass of the first
\* tick that finds it so: never later than 35 minutes after its last access.
C22_IdleSessionRemoved ==
    /\ []C22_RemovedWithinOneTick
    /\ \A r \in 1 .. MaxSessions :
          (r <= Len(heap) /\ InStore(r) /\ IdleTime(r) > IdleThreshold)
             ~> (~InStore(r) \/ IdleTime(r) <= IdleThreshold)

\* A session last accessed 35 minutes ago has been deleted by the pass of
\* this tick, after the tick at 30 minutes had left it in place.
C22_Witness ==
    /\ reaperPc = "unlock"
    /\ now = IdleThreshold + TickInterval
    /\ \E r \in reaped : ~InStore(r) /\ heap[r].LastUsed = 0

\* C23 (as claimed): Downscale of a W x H source, W >= 1 and H >= 1, to a
\* width p with 1 <= p <= W returns an image of height >= 1, and so does a
\* conversion with such a pixelSize and a scale >= 1.
C23_DownscaleNonEmpty ==
    LET W == Dx(pin.bounds)
        H == Dy(pin.bounds)
    IN  /\ (pcall.op = "Downscale" /\ W >= 1 /\ H >= 1
              /\ 1 <= pcall.pixelSize /\ pcall.pixelSize <= W)
             => Dx(pout.bounds) >= 1 /\ Dy(pout.bounds) >= 1
        /\ (pcall.op = "Convert" /\ W >= 1 /\ H >= 1
              /\ 1 <= pcall.pixelSize /\ pcall.pixelSize <= W /\ pcall.scale >= 1)
             => Dx(pout.bounds) >= 1 /\ Dy(pout.bounds) >= 1

\* C24 (as claimed): for every colorCount > 0 the step floor(255 /
\* (levelsPerChannel - 1)) is at least 1, so that quantizeChannel never
\* divides by a zero step, and every channel value stored lies in 0 .. 255.
C24_StepAtLeastOne ==
    pcall.op = "QuantizeColors" /\ pcall.colors > 0 =>
       LET g == pcall.colors \div 3
           levelsPerChannel == IF g < 2 THEN 2 ELSE g
           step == 255 \div (levelsPerChannel - 1)
       IN  /\ step >= 1
           /\ \A i \in 1 .. 3 : pout.pix[<<0, 0>>][i] \in 0 .. 255

\* The answers of handleUpload that report an error.
UploadErrors ==
    {HttpError(405, "Method not allowed"), HttpError(400, "Failed to read image"),
     HttpError(400, "Failed to decode image"),
     HttpError(500, "Failed to generate session ID"),
     HttpError(500, "Failed to encode image")}

\* C25 (as claimed): an upload request answered with an error has put no
\* session into the store: every stored session was created by a request
\* that is not answered with an error.
C25_FailedUploadStoresNothing ==
    \A h \in DOMAIN hs :
       hs[h].pc = "done" /\ hs[h].resp \in UploadErrors =>
          /\ hs[h].session = 0
          /\ hs[h].id \notin DOMAIN sessions \/ sessions[hs[h].id] # hs[h].session

\* Nothing is under way in the web client: no upload, no convert request, no
\* parameter change waiting for its debounce.
WebQuiet ==
    /\ ~web.isUploading
    /\ web.inFlight = {}
    /\ web.debouncedParams = web.params

\* C26 (as claimed): once every outstanding request has completed, the
\* preview is the conversion of the current session with the latest debounced
\* parameters, and empty after a reset: no answer to an older convert request
\* is what the preview holds.
C26_PreviewIsLatest ==
    WebQuiet =>
       IF web.imageState = 0
       THEN web.converted = NoPreview
       ELSE web.converted = [session |-> web.imageState, params |-> web.debouncedParams]

====
